---------------------------- MODULE Spec2Model ----------------------------
(***************************************************************************)
(* A model of prompt-sanitizer: the envelope function WrapContent          *)
(* (pkg/wrapper/wrapper.go) and the command-line driver run                *)
(* (cmd/prompt-sanitizer/main.go).                                         *)
(*                                                                         *)
(* A Go string is modelled as a sequence of one-character strings, one per *)
(* byte, so that length, position, prefix, suffix and substring are the    *)
(* byte-level notions the code and its tests use.                          *)
(***************************************************************************)
EXTENDS Integers, Sequences, FiniteSets, TLC

VARIABLES
    \* ---- shared by the wrapper and by run
    content,        \* the content argument of WrapContent; run's content
    source,         \* the source argument of WrapContent; run's *source
    \* ---- the wrapper exercised on its own (SpecWrap)
    stage,          \* "idle" | "input" | "wrapped" | "rewrapped"
    out,            \* WrapContent(content, source)
    source2,        \* the source label of the second, outer wrapping
    out2,           \* WrapContent(out, source2)
    \* ---- one invocation of run (Spec)
    pc,             \* "idle" | "start" | "parsed" | "acquired" | "done"
    args,           \* args[1:], the command line after the program name
    filePath,       \* *filePath
    showVersion,    \* *showVersion
    remainingArgs,  \* fs.Args()
    err,            \* the error run returns, outermost message first;
                    \* <<>> is nil
    returnedAt,     \* the return statement run left by: "none" | "parse" |
                    \* "version" | "acquire" | "output"
    stdout,         \* the bytes the stdout writer has accepted
    stderr,         \* what the flag set has printed to stderr
    writeResult,    \* how the stdout writer took the one write:
                    \* "none" | "ok" | "short" | "failed"
    stdinConsumed,  \* the bytes read from the stdin reader
    answer,         \* what the outside world answered to the acquisition:
                    \* the bytes it produced and its error, <<>> for none
    effects,        \* the calls made so far, in order
    child,          \* the subprocess run started: its argument list, what
                    \* its descriptors 0, 1, 2 are connected to, and what
                    \* it did
    \* ---- several invocations of run at once (SpecConc)
    inv,            \* per invocation: its arguments, its streams, its
                    \* position in run, its content and its result
    flagSets        \* the flag sets made by flag.NewFlagSet, by identity:
                    \* the flag values and the remaining arguments of each

wrapVars == <<stage, out, source2, out2>>

runVars ==
    <<pc, args, filePath, showVersion, remainingArgs, err, returnedAt,
      stdout, stderr, writeResult, stdinConsumed, answer, effects, child>>

concVars == <<inv, flagSets>>

vars == <<content, source, wrapVars, runVars, concVars>>

(***************************************************************************)
(* Bounds of the model.                                                    *)
(***************************************************************************)
\* the most pieces (see Pieces) a content string is made of
MaxContentPieces == 2
\* the most pieces a source label is made of
MaxSourcePieces == 1

(***************************************************************************)
(* String literals of the program.                                         *)
(***************************************************************************)
NL == <<"\n">>

StartMarker ==
    <<"<", "<", "<", "E", "X", "T", "E", "R", "N", "A", "L", "_", "U", "N",
      "T", "R", "U", "S", "T", "E", "D", "_", "C", "O", "N", "T", "E", "N",
      "T", ">", ">", ">">>

EndMarker ==
    <<"<", "<", "<", "E", "N", "D", "_", "E", "X", "T", "E", "R", "N", "A",
      "L", "_", "U", "N", "T", "R", "U", "S", "T", "E", "D", "_", "C", "O",
      "N", "T", "E", "N", "T", ">", ">", ">">>

SourcePrefix == <<"S", "o", "u", "r", "c", "e", ":", " ">>

Separator == <<"-", "-", "-">>

\* the value of answer before the acquisition
NoAnswer == [data |-> <<>>, err |-> <<>>]

\* no subprocess was started
NoChild ==
    [argv |-> <<>>, fds |-> <<>>,
     proc |-> [started |-> FALSE, writes |-> <<>>, status |-> 0]]

\* Format with the two verbs exchanged for %d: a wrong verb for a string.
FormatWrongVerb ==
    StartMarker \o NL \o SourcePrefix \o <<"%", "d">> \o NL
        \o Separator \o NL \o <<"%", "s">> \o NL \o EndMarker

\* Format with a newline after the end marker.
FormatTrailingNewline ==
    StartMarker \o NL \o SourcePrefix \o <<"%", "s">> \o NL
        \o Separator \o NL \o <<"%", "s">> \o NL \o EndMarker \o NL

\* Format without the separator line.
FormatNoSeparator ==
    StartMarker \o NL \o SourcePrefix \o <<"%", "s">> \o NL
        \o <<"%", "s">> \o NL \o EndMarker

\* The format string of WrapContent: a raw string literal of five lines.
Format ==
    StartMarker \o NL \o SourcePrefix \o <<"%", "s">> \o NL
        \o Separator \o NL \o <<"%", "s">> \o NL \o EndMarker

(***************************************************************************)
(* fmt.Sprintf, for string operands and a format without flags or widths:  *)
(* bytes other than '%' are copied; "%%" gives '%'; "%s" and "%v" give the *)
(* next operand byte for byte; a verb without an operand gives             *)
(* "%!v(MISSING)"; another verb gives "%!v(string=operand)"; a final '%'   *)
(* gives "%!(NOVERB)"; operands left over give "%!(EXTRA string=a, ...)".  *)
(***************************************************************************)
MissingText == <<"(", "M", "I", "S", "S", "I", "N", "G", ")">>
ExtraText == <<"%", "!", "(", "E", "X", "T", "R", "A", " ">>
StringEq == <<"s", "t", "r", "i", "n", "g", "=">>
NoVerbText == <<"%", "!", "(", "N", "O", "V", "E", "R", "B", ")">>

RECURSIVE ExtraOperands(_, _)
ExtraOperands(a, argNum) ==
    IF argNum > Len(a) THEN <<>>
    ELSE StringEq \o a[argNum]
            \o (IF argNum < Len(a) THEN <<",", " ">> ELSE <<>>)
            \o ExtraOperands(a, argNum + 1)

\* the first position from i on where s holds the byte ch, or Len(s) + 1
IndexFrom(s, ch, i) ==
    LET hits == { j \in i..Len(s) : s[j] = ch } IN
    IF hits = {} THEN Len(s) + 1
    ELSE CHOOSE j \in hits : \A k \in hits : j <= k

\* one step per verb: the literal bytes up to the next '%' are copied whole
RECURSIVE SprintfFrom(_, _, _, _)
SprintfFrom(format, a, i, argNum) ==
    IF i > Len(format)
    THEN IF argNum <= Len(a)
         THEN ExtraText \o ExtraOperands(a, argNum) \o <<")">>
         ELSE <<>>
    ELSE IF format[i] # "%"
    THEN LET j == IndexFrom(format, "%", i) IN
         SubSeq(format, i, j - 1) \o SprintfFrom(format, a, j, argNum)
    ELSE IF i = Len(format)
    THEN NoVerbText \o SprintfFrom(format, a, i + 1, argNum)
    ELSE LET verb == format[i + 1] IN
         IF verb = "%"
         THEN <<"%">> \o SprintfFrom(format, a, i + 2, argNum)
         ELSE IF argNum > Len(a)
         THEN <<"%", "!", verb>> \o MissingText
                  \o SprintfFrom(format, a, i + 2, argNum)
         ELSE IF verb \in {"s", "v"}
         THEN a[argNum] \o SprintfFrom(format, a, i + 2, argNum + 1)
         ELSE <<"%", "!", verb, "(">> \o StringEq \o a[argNum] \o <<")">>
                  \o SprintfFrom(format, a, i + 2, argNum + 1)

Sprintf(format, a) == SprintfFrom(format, a, 1, 1)

(***************************************************************************)
(* Helpers of package strings, as the tests use them.                      *)
(***************************************************************************)
HasPrefix(s, prefix) ==
    Len(s) >= Len(prefix) /\ SubSeq(s, 1, Len(prefix)) = prefix

HasSuffix(s, suffix) ==
    Len(s) >= Len(suffix)
        /\ SubSeq(s, Len(s) - Len(suffix) + 1, Len(s)) = suffix

\* strings.Count: the non-overlapping occurrences of a non-empty sub in s,
\* found from the left, each search resuming after the last occurrence
RECURSIVE CountFrom(_, _, _)
CountFrom(s, sub, i) ==
    LET hits == { j \in i..(Len(s) - Len(sub) + 1) :
                    SubSeq(s, j, j + Len(sub) - 1) = sub } IN
    IF hits = {} THEN 0
    ELSE LET first == CHOOSE j \in hits : \A k \in hits : j <= k IN
         1 + CountFrom(s, sub, first + Len(sub))

Count(s, sub) == CountFrom(s, sub, 1)

Contains(s, sub) == Count(s, sub) > 0

\* strings.Split(s, "\n"): the lines of s, one more than its newlines
RECURSIVE SplitFrom(_, _)
SplitFrom(s, i) ==
    LET j == IndexFrom(s, "\n", i) IN
    IF j > Len(s) THEN << SubSeq(s, i, Len(s)) >>
    ELSE << SubSeq(s, i, j - 1) >> \o SplitFrom(s, j + 1)

Split(s) == SplitFrom(s, 1)

\* strings.TrimSuffix(s, "\n")
TrimSuffixNL(s) ==
    IF HasSuffix(s, NL) THEN SubSeq(s, 1, Len(s) - 1) ELSE s

(***************************************************************************)
(* WrapContent and the bugs it is compared with.                           *)
(***************************************************************************)
\* the operands in the wrong order
WrapContentSwapped(c, s) == Sprintf(Format, <<c, s>>)

\* the content loses a trailing newline
WrapContentTrimmed(c, s) == Sprintf(Format, <<s, TrimSuffixNL(c)>>)

\* the source label is cut at its first newline
WrapContentSourceFirstLine(c, s) == Sprintf(Format, <<Split(s)[1], c>>)

\* content that holds a marker token is dropped
WrapContentSanitized(c, s) ==
    IF Contains(c, StartMarker) \/ Contains(c, EndMarker)
    THEN Sprintf(Format, <<s, <<>>>>)
    ELSE Sprintf(Format, <<s, c>>)

\* text that is already an envelope is returned as it is
WrapContentIdempotent(c, s) ==
    IF HasPrefix(c, StartMarker \o NL) /\ HasSuffix(c, NL \o EndMarker)
    THEN c
    ELSE Sprintf(Format, <<s, c>>)

WrapContentWrongVerb(c, s) == Sprintf(FormatWrongVerb, <<s, c>>)

WrapContentTrailingNewline(c, s) == Sprintf(FormatTrailingNewline, <<s, c>>)

WrapContentNoSeparator(c, s) == Sprintf(FormatNoSeparator, <<s, c>>)

\* the source and the content are spliced into the format string itself
WrapContentFormatted(c, s) ==
    Sprintf(StartMarker \o NL \o SourcePrefix \o s \o NL \o Separator \o NL
                \o c \o NL \o EndMarker, <<>>)

\* func WrapContent(content, source string) string
WrapContent(c, s) == Sprintf(Format, <<s, c>>)

(***************************************************************************)
(* The inputs: strings made of a few pieces, among them the newline, the   *)
(* '%' of a format verb, the separator and the two marker tokens.          *)
(***************************************************************************)
Pieces ==
    { <<"a">>, NL, <<"%">>, <<"%", "s">>, Separator, StartMarker, EndMarker }

RECURSIVE StringsOf(_)
StringsOf(n) ==
    IF n = 0 THEN { <<>> }
    ELSE LET shorter == StringsOf(n - 1) IN
         shorter \cup { s \o p : s \in shorter, p \in Pieces }

Contents == StringsOf(MaxContentPieces)
Sources == StringsOf(MaxSourcePieces)
RewrapSources == { <<>>, NL, StartMarker, EndMarker }

(***************************************************************************)
(* SpecWrap: WrapContent applied to every input, and applied again to its  *)
(* own result.                                                             *)
(***************************************************************************)
WrapInit ==
    /\ stage = "input"
    /\ content \in Contents
    /\ source \in Sources
    /\ out = <<>>
    /\ source2 = <<>>
    /\ out2 = <<>>
    /\ pc = "idle"
    /\ args = <<>>
    /\ filePath = <<>>
    /\ showVersion = FALSE
    /\ remainingArgs = <<>>
    /\ err = <<>>
    /\ returnedAt = "none"
    /\ stdout = <<>>
    /\ stderr = <<>>
    /\ writeResult = "none"
    /\ stdinConsumed = 0
    /\ answer = NoAnswer
    /\ effects = <<>>
    /\ child = NoChild
    /\ inv = <<>>
    /\ flagSets = <<>>

Wrap ==
    /\ stage = "input"
    /\ out' = WrapContent(content, source)
    /\ stage' = "wrapped"
    /\ UNCHANGED <<content, source, source2, out2, runVars, concVars>>

Rewrap ==
    /\ stage = "wrapped"
    /\ \E s2 \in RewrapSources :
        /\ source2' = s2
        /\ out2' = WrapContent(out, s2)
    /\ stage' = "rewrapped"
    /\ UNCHANGED <<content, source, out, runVars, concVars>>

WrapNext == Wrap \/ Rewrap

SpecWrap == WrapInit /\ [][WrapNext]_vars

(***************************************************************************)
(* The command line: args[1:] is a list of at most MaxArgs arguments, each *)
(* one of the Tokens.                                                      *)
(***************************************************************************)
SourceName == <<"s", "o", "u", "r", "c", "e">>
FileName == <<"f", "i", "l", "e">>
VersionName == <<"v", "e", "r", "s", "i", "o", "n">>
HelpName == <<"h", "e", "l", "p">>

\* the default of the source flag
Unknown == <<"U", "n", "k", "n", "o", "w", "n">>

\* var Version = "dev"
Version == <<"d", "e", "v">>

ArgSource == <<"-", "s", "o", "u", "r", "c", "e">>
ArgSourceEqL == <<"-", "-", "s", "o", "u", "r", "c", "e", "=", "L">>
ArgSourceEq == <<"-", "-", "s", "o", "u", "r", "c", "e", "=">>
ArgSourceEqUnknown ==
    <<"-", "-", "s", "o", "u", "r", "c", "e", "=",
      "U", "n", "k", "n", "o", "w", "n">>
ArgFile == <<"-", "-", "f", "i", "l", "e">>
ArgFileEqP == <<"-", "-", "f", "i", "l", "e", "=", "p">>
ArgFileEq == <<"-", "-", "f", "i", "l", "e", "=">>
ArgVersion == <<"-", "-", "v", "e", "r", "s", "i", "o", "n">>
ArgDashDash == <<"-", "-">>
ArgHelp == <<"-", "h">>
ArgBogus == <<"-", "-", "b", "o", "g", "u", "s">>
ArgL == <<"L">>
ArgP == <<"p">>
ArgCmd == <<"c", "m", "d">>

Tokens ==
    { ArgSource, ArgSourceEqL, ArgSourceEq, ArgSourceEqUnknown, ArgFile, ArgFileEqP, ArgFileEq,
      ArgVersion, ArgDashDash, ArgHelp, ArgBogus, ArgL, ArgP, ArgCmd }

\* the most arguments after the program name
MaxArgs == 3

RECURSIVE ArgLists(_)
ArgLists(n) ==
    IF n = 0 THEN { <<>> }
    ELSE LET shorter == ArgLists(n - 1) IN
         shorter \cup { Append(l, a) : l \in shorter, a \in Tokens }

(***************************************************************************)
(* flag.FlagSet.Parse under flag.ContinueOnError, for the three flags run  *)
(* defines: the string flags source (default "Unknown") and file (default  *)
(* ""), and the boolean flag version (default false).                      *)
(*                                                                         *)
(* An argument shorter than two bytes or not starting with '-' ends the    *)
(* flags and stays in the remaining arguments; "--" ends the flags and is  *)
(* dropped; one or two leading '-' are equivalent; "-name=value" carries   *)
(* its value, a string flag without '=' takes the next argument whatever   *)
(* it looks like; a boolean flag takes no argument.  An error is printed   *)
(* to the flag set's output together with the usage text, and returned.    *)
(***************************************************************************)
\* strconv.ParseBool
BoolTrue == { <<"1">>, <<"t">>, <<"T">>, <<"t", "r", "u", "e">>,
              <<"T", "R", "U", "E">>, <<"T", "r", "u", "e">> }
BoolFalse == { <<"0">>, <<"f">>, <<"F">>, <<"f", "a", "l", "s", "e">>,
               <<"F", "A", "L", "S", "E">>, <<"F", "a", "l", "s", "e">> }

\* the source flag is defined with an empty default
FlagDefaultsEmptySource ==
    [source |-> <<>>, file |-> <<>>, version |-> FALSE, set |-> {}]

\* the values of the flags before any argument is parsed, and the names of
\* the flags set by an argument (FlagSet.actual)
FlagDefaults ==
    [source |-> Unknown, file |-> <<>>, version |-> FALSE, set |-> {}]

ParseDone(st, rest) ==
    [flags |-> st, rest |-> rest, err |-> <<>>, output |-> <<>>]

\* FlagSet.failf: the message and the usage text go to the output
ParseFail(st, rest, msg) ==
    [flags |-> st, rest |-> rest, err |-> <<msg>>, output |-> <<msg, "usage">>]

\* -h and -help, when no such flag is defined: the usage text, and ErrHelp
ParseHelp(st, rest) ==
    [flags |-> st, rest |-> rest, err |-> <<"flag: help requested">>,
     output |-> <<"usage">>]

\* a string flag never takes the following argument as its value
RECURSIVE ParseFromNoLookahead(_, _)
ParseFromNoLookahead(st, argv) ==
    IF argv = <<>> THEN ParseDone(st, <<>>)
    ELSE
    LET s == Head(argv) IN
    IF Len(s) < 2 \/ s[1] # "-" THEN ParseDone(st, argv)
    ELSE
    LET numMinuses == IF s[2] = "-" THEN 2 ELSE 1 IN
    IF numMinuses = 2 /\ Len(s) = 2 THEN ParseDone(st, Tail(argv))
    ELSE
    LET name0 == SubSeq(s, numMinuses + 1, Len(s))
        rest == Tail(argv)
    IN
    IF Len(name0) = 0 \/ name0[1] = "-" \/ name0[1] = "="
    THEN ParseFail(st, argv, "bad flag syntax")
    ELSE
    LET eq == IndexFrom(name0, "=", 2)
        hasValue == eq <= Len(name0)
        name == SubSeq(name0, 1, eq - 1)
        value == SubSeq(name0, eq + 1, Len(name0))
    IN
    IF name \notin {SourceName, FileName, VersionName}
    THEN IF name \in {HelpName, <<"h">>}
         THEN ParseHelp(st, rest)
         ELSE ParseFail(st, rest, "flag provided but not defined")
    ELSE IF name = VersionName
    THEN ParseFromNoLookahead([st EXCEPT !.version = TRUE,
                                          !.set = @ \cup {VersionName}], rest)
    ELSE IF ~hasValue
    THEN ParseFail(st, rest, "flag needs an argument")
    ELSE IF name = SourceName
    THEN ParseFromNoLookahead([st EXCEPT !.source = value,
                                          !.set = @ \cup {SourceName}], rest)
    ELSE ParseFromNoLookahead([st EXCEPT !.file = value,
                                          !.set = @ \cup {FileName}], rest)

\* the flags are looked for among all the arguments, also after the first
\* argument that is no flag
RECURSIVE ParseFromInterspersed(_, _)
ParseFromInterspersed(st, argv) ==
    IF argv = <<>> THEN ParseDone(st, <<>>)
    ELSE
    LET s == Head(argv) IN
    IF Len(s) < 2 \/ s[1] # "-"
    THEN LET r == ParseFromInterspersed(st, Tail(argv)) IN
         [r EXCEPT !.rest = <<s>> \o @]
    ELSE
    LET numMinuses == IF s[2] = "-" THEN 2 ELSE 1 IN
    IF numMinuses = 2 /\ Len(s) = 2 THEN ParseDone(st, Tail(argv))
    ELSE
    LET name0 == SubSeq(s, numMinuses + 1, Len(s))
        rest == Tail(argv)
    IN
    IF Len(name0) = 0 \/ name0[1] = "-" \/ name0[1] = "="
    THEN ParseFail(st, argv, "bad flag syntax")
    ELSE
    LET eq == IndexFrom(name0, "=", 2)
        hasValue == eq <= Len(name0)
        name == SubSeq(name0, 1, eq - 1)
        value == SubSeq(name0, eq + 1, Len(name0))
    IN
    IF name \notin {SourceName, FileName, VersionName}
    THEN IF name \in {HelpName, <<"h">>}
         THEN ParseHelp(st, rest)
         ELSE ParseFail(st, rest, "flag provided but not defined")
    ELSE IF name = VersionName
    THEN IF ~hasValue \/ value \in BoolTrue
         THEN ParseFromInterspersed([st EXCEPT !.version = TRUE,
                                          !.set = @ \cup {VersionName}], rest)
         ELSE IF value \in BoolFalse
         THEN ParseFromInterspersed([st EXCEPT !.version = FALSE,
                            !.set = @ \cup {VersionName}], rest)
         ELSE ParseFail(st, rest, "invalid boolean value")
    ELSE IF ~hasValue /\ rest = <<>>
    THEN ParseFail(st, rest, "flag needs an argument")
    ELSE
    LET v == IF hasValue THEN value ELSE Head(rest)
        rest2 == IF hasValue THEN rest ELSE Tail(rest)
    IN
    IF name = SourceName
    THEN ParseFromInterspersed([st EXCEPT !.source = v,
                            !.set = @ \cup {SourceName}], rest2)
    ELSE ParseFromInterspersed([st EXCEPT !.file = v, !.set = @ \cup {FileName}], rest2)

\* FlagSet.parseOne, repeated until an argument is no flag or an error
RECURSIVE ParseFrom(_, _)
ParseFrom(st, argv) ==
    IF argv = <<>> THEN ParseDone(st, <<>>)
    ELSE
    LET s == Head(argv) IN
    IF Len(s) < 2 \/ s[1] # "-" THEN ParseDone(st, argv)
    ELSE
    LET numMinuses == IF s[2] = "-" THEN 2 ELSE 1 IN
    IF numMinuses = 2 /\ Len(s) = 2 THEN ParseDone(st, Tail(argv))
    ELSE
    LET name0 == SubSeq(s, numMinuses + 1, Len(s))
        rest == Tail(argv)
    IN
    IF Len(name0) = 0 \/ name0[1] = "-" \/ name0[1] = "="
    THEN ParseFail(st, argv, "bad flag syntax")
    ELSE
    LET eq == IndexFrom(name0, "=", 2)
        hasValue == eq <= Len(name0)
        name == SubSeq(name0, 1, eq - 1)
        value == SubSeq(name0, eq + 1, Len(name0))
    IN
    IF name \notin {SourceName, FileName, VersionName}
    THEN IF name \in {HelpName, <<"h">>}
         THEN ParseHelp(st, rest)
         ELSE ParseFail(st, rest, "flag provided but not defined")
    ELSE IF name = VersionName
    THEN IF ~hasValue \/ value \in BoolTrue
         THEN ParseFrom([st EXCEPT !.version = TRUE,
                                          !.set = @ \cup {VersionName}], rest)
         ELSE IF value \in BoolFalse
         THEN ParseFrom([st EXCEPT !.version = FALSE,
                            !.set = @ \cup {VersionName}], rest)
         ELSE ParseFail(st, rest, "invalid boolean value")
    ELSE IF ~hasValue /\ rest = <<>>
    THEN ParseFail(st, rest, "flag needs an argument")
    ELSE
    LET v == IF hasValue THEN value ELSE Head(rest)
        rest2 == IF hasValue THEN rest ELSE Tail(rest)
    IN
    IF name = SourceName
    THEN ParseFrom([st EXCEPT !.source = v,
                            !.set = @ \cup {SourceName}], rest2)
    ELSE ParseFrom([st EXCEPT !.file = v, !.set = @ \cup {FileName}], rest2)

\* fs.Parse(args[1:]) on the flag set of run
FlagParse(argv) == ParseFrom(FlagDefaults, argv)

\* fs.Parse on every command line of the model, worked out once
FlagParses == [argv \in ArgLists(MaxArgs) |-> FlagParse(argv)]

(***************************************************************************)
(* What the world outside can answer to the three acquisitions and to the  *)
(* write.  A byte that is no printable character is written by its code.   *)
(***************************************************************************)
\* os.ReadFile: the whole file, or an error
FileOutcomes ==
    { [data |-> <<"f", "\n">>, err |-> <<>>],
      [data |-> <<"0x00", "0xff">>, err |-> <<>>],
      [data |-> <<>>, err |-> <<"no such file or directory">>],
      [data |-> <<>>, err |-> <<"is a directory">>],
      [data |-> <<>>, err |-> <<"permission denied">>] }

\* io.ReadAll: the bytes up to end of input, or those read before an error
StdinOutcomes ==
    { [data |-> <<>>, err |-> <<>>],
      [data |-> <<"i">>, err |-> <<>>],
      [data |-> EndMarker \o NL, err |-> <<>>],
      [data |-> <<"0x00", "0xff">>, err |-> <<>>],
      [data |-> <<"i">>, err |-> <<"read error">>] }

\* a subprocess: whether it could be started, what it wrote to its standard
\* output (fd 1) and standard error (fd 2), in order, and its exit status
Processes ==
    { [started |-> FALSE, writes |-> <<>>, status |-> 0],
      [started |-> TRUE, writes |-> <<>>, status |-> 0],
      [started |-> TRUE,
       writes |-> << [fd |-> 1, data |-> <<"o">>],
                     [fd |-> 2, data |-> <<"e">>],
                     [fd |-> 1, data |-> <<"o", "\n">>] >>,
       status |-> 0],
      [started |-> TRUE,
       writes |-> << [fd |-> 1, data |-> <<"o">>],
                     [fd |-> 2, data |-> <<"e">>] >>,
       status |-> 1] }

WriteOutcomes == {"ok", "short", "failed"}

\* the bytes of the writes, in the order written
RECURSIVE Combined(_)
Combined(writes) ==
    IF writes = <<>> THEN <<>>
    ELSE Head(writes).data \o Combined(Tail(writes))

\* the subprocess's standard error is left to the parent's standard error
\* (cmd.Stderr = os.Stderr and cmd.Output())
ChildFdsStderrInherited ==
    [fd \in {0, 1, 2} |->
        CASE fd = 0 -> "devnull" [] fd = 1 -> "buffer" [] OTHER -> "stderr"]

\* the subprocess is given the parent's standard input (cmd.Stdin = os.Stdin)
ChildFdsStdinInherited ==
    [fd \in {0, 1, 2} |-> IF fd = 0 THEN "stdin" ELSE "buffer"]

\* what exec.Command and cmd.CombinedOutput() connect the descriptors of the
\* subprocess to: Stdin is left nil, so descriptor 0 is the null device;
\* Stdout and Stderr are set to one and the same buffer
ChildFds ==
    [fd \in {0, 1, 2} |-> IF fd = 0 THEN "devnull" ELSE "buffer"]

\* the bytes of the writes that go to the target, in the order written
RECURSIVE Routed(_, _, _)
Routed(fds, writes, target) ==
    IF writes = <<>> THEN <<>>
    ELSE (IF fds[Head(writes).fd] = target THEN Head(writes).data ELSE <<>>)
            \o Routed(fds, Tail(writes), target)

\* how many bytes of the parent's standard input a subprocess may take
ChildReads(fds) == IF fds[0] = "stdin" THEN {0, 1} ELSE {0}

\* cmd.CombinedOutput(): stdout and stderr share one buffer; an error when
\* the program cannot be started or exits with a status other than 0
CombinedOutput(proc) ==
    IF ~proc.started
    THEN [data |-> <<>>, err |-> <<"executable file not found">>]
    ELSE IF proc.status # 0
    THEN [data |-> Routed(ChildFds, proc.writes, "buffer"),
          err |-> <<"exit status">>]
    ELSE [data |-> Routed(ChildFds, proc.writes, "buffer"), err |-> <<>>]

\* the output of a started command is kept whatever its exit status
executeCommandKeepOutput(proc) ==
    LET r == CombinedOutput(proc) IN
    IF ~proc.started
    THEN [data |-> <<>>, err |-> <<"command failed: ">> \o r.err]
    ELSE [data |-> r.data, err |-> <<>>]

\* func executeCommand(args []string) (string, error)
executeCommand(proc) ==
    LET r == CombinedOutput(proc) IN
    IF r.err # <<>>
    THEN [data |-> <<>>, err |-> <<"command failed: ">> \o r.err]
    ELSE [data |-> r.data, err |-> <<>>]

\* strings.ToValidUTF8(s, "\uFFFD"): a byte that is no valid encoding is
\* replaced by the three bytes of the replacement character
RECURSIVE ToValidUTF8(_)
ToValidUTF8(s) ==
    IF s = <<>> THEN <<>>
    ELSE (IF Head(s) = "0xff" THEN <<"0xef", "0xbf", "0xbd">> ELSE <<Head(s)>>)
            \o ToValidUTF8(Tail(s))

\* the bytes of the file are made valid text before they are returned
readFileValidUTF8(o) ==
    IF o.err # <<>> THEN [data |-> <<>>, err |-> o.err]
    ELSE [data |-> ToValidUTF8(o.data), err |-> <<>>]

\* func readFile(path string) (string, error)
readFile(o) ==
    IF o.err # <<>> THEN [data |-> <<>>, err |-> o.err]
    ELSE [data |-> o.data, err |-> <<>>]

\* func readFromReader(r io.Reader) (string, error)
readFromReader(o) ==
    IF o.err # <<>> THEN [data |-> <<>>, err |-> o.err]
    ELSE [data |-> o.data, err |-> <<>>]

\* the bytes a writer accepts of one Write of buf
Written(buf, outcome) ==
    CASE outcome = "ok" -> buf
      [] outcome = "short" -> SubSeq(buf, 1, Len(buf) - 1)
      [] OTHER -> <<>>

\* a file path is tried before the trailing arguments
ModeFileFirst(rem, path) ==
    IF path # <<>> THEN "file"
    ELSE IF Len(rem) > 0 THEN "command"
    ELSE "stream"

\* the if / else if / else of run that picks the acquisition
Mode(rem, path) ==
    IF Len(rem) > 0 THEN "command"
    ELSE IF path # <<>> THEN "file"
    ELSE "stream"

(***************************************************************************)
(* Spec: one invocation of run, a step per call it makes.                  *)
(***************************************************************************)
Init ==
    /\ pc = "start"
    /\ args \in ArgLists(MaxArgs)
    /\ source = Unknown
    /\ filePath = <<>>
    /\ showVersion = FALSE
    /\ remainingArgs = <<>>
    /\ content = <<>>
    /\ err = <<>>
    /\ returnedAt = "none"
    /\ stdout = <<>>
    /\ stderr = <<>>
    /\ writeResult = "none"
    /\ stdinConsumed = 0
    /\ answer = NoAnswer
    /\ effects = <<>>
    /\ child = NoChild
    /\ inv = <<>>
    /\ flagSets = <<>>
    /\ stage = "idle"
    /\ out = <<>>
    /\ source2 = <<>>
    /\ out2 = <<>>

\* the error of fs.Parse is not returned: run goes on with the flags as set
ParseIgnoreError ==
    /\ pc = "start"
    /\ LET r == FlagParses[args] IN
        /\ source' = r.flags.source
        /\ filePath' = r.flags.file
        /\ showVersion' = r.flags.version
        /\ remainingArgs' = r.rest
        /\ stderr' = stderr \o r.output
        /\ err' = <<>>
        /\ pc' = "parsed"
        /\ returnedAt' = "none"
    /\ UNCHANGED <<content, args, stdout, writeResult, stdinConsumed,
                   answer, effects, child, wrapVars, concVars>>

\* run, lines 24-33: the flag set is built and the arguments are parsed
Parse ==
    /\ pc = "start"
    /\ LET r == FlagParses[args] IN
        /\ source' = r.flags.source
        /\ filePath' = r.flags.file
        /\ showVersion' = r.flags.version
        /\ remainingArgs' = r.rest
        /\ stderr' = stderr \o r.output
        /\ err' = r.err
        /\ pc' = IF r.err # <<>> THEN "done" ELSE "parsed"
        /\ returnedAt' = IF r.err # <<>> THEN "parse" ELSE "none"
    /\ UNCHANGED <<content, args, stdout, writeResult, stdinConsumed,
                   answer, effects, child, wrapVars, concVars>>

\* run, lines 35-38: the version is printed and run returns nil
PrintVersion ==
    /\ pc = "parsed"
    /\ showVersion
    /\ \E w \in WriteOutcomes :
        /\ writeResult' = w
        /\ stdout' = stdout \o Written(Version \o NL, w)
    /\ effects' = Append(effects, "Fprintln")
    /\ err' = <<>>
    /\ pc' = "done"
    /\ returnedAt' = "version"
    /\ UNCHANGED <<content, source, args, filePath, showVersion,
                   remainingArgs, stderr, stdinConsumed, answer, child,
                   wrapVars, concVars>>

\* what the three acquisitions share: the result r is kept or returned
Acquired(call, raw, r) ==
    /\ effects' = Append(effects, call)
    /\ answer' = raw
    /\ IF r.err # <<>>
       THEN /\ err' = r.err
            /\ content' = content
            /\ pc' = "done"
            /\ returnedAt' = "acquire"
       ELSE /\ err' = <<>>
            /\ content' = r.data
            /\ pc' = "acquired"
            /\ returnedAt' = "none"
    /\ UNCHANGED <<source, args, filePath, showVersion, remainingArgs,
                   stdout, writeResult, wrapVars, concVars>>

\* what starting the subprocess proc on the remaining arguments leaves
\* outside the returned bytes: the record of the run, what the subprocess
\* wrote to a descriptor left to the parent's standard error, and what it
\* took from the parent's standard input
Spawned(proc) ==
    /\ child' = [argv |-> remainingArgs, fds |-> ChildFds, proc |-> proc]
    /\ stderr' = stderr \o (IF proc.started
                             THEN Routed(ChildFds, proc.writes, "stderr")
                             ELSE <<>>)
    /\ stdinConsumed' \in (IF proc.started THEN ChildReads(ChildFds) ELSE {0})

\* a command that fails is replaced by a read of standard input
ExecuteCommandFallback ==
    /\ pc = "parsed"
    /\ ~showVersion
    /\ Mode(remainingArgs, filePath) = "command"
    /\ \E proc \in Processes :
        LET r == executeCommand(proc) IN
        IF r.err # <<>>
        THEN \E o \in StdinOutcomes :
                /\ effects' = effects \o <<"executeCommand", "readFromReader">>
                /\ stdinConsumed' = Len(o.data)
                /\ answer' = o
                /\ err' = <<>>
                /\ content' = o.data
                /\ pc' = "acquired"
                /\ returnedAt' = "none"
                /\ child' = [argv |-> remainingArgs, fds |-> ChildFds,
                             proc |-> proc]
                /\ UNCHANGED <<source, args, filePath, showVersion,
                               remainingArgs, stdout, stderr, writeResult,
                               wrapVars, concVars>>
        ELSE /\ Acquired("executeCommand", CombinedOutput(proc), r)
             /\ Spawned(proc)

\* the trailing arguments are looked at before the version flag
ExecuteCommandBeforeVersion ==
    /\ pc = "parsed"
    /\ Mode(remainingArgs, filePath) = "command"
    /\ \E proc \in Processes :
        LET r == executeCommand(proc) IN
        /\ Acquired("executeCommand", CombinedOutput(proc),
                    [data |-> r.data,
                     err |-> IF r.err # <<>>
                             THEN <<"executing command: ">> \o r.err
                             ELSE <<>>])
        /\ Spawned(proc)

\* run, lines 44-50: command mode
ExecuteCommand ==
    /\ pc = "parsed"
    /\ ~showVersion
    /\ Mode(remainingArgs, filePath) = "command"
    /\ \E proc \in Processes :
        LET r == executeCommand(proc) IN
        /\ Acquired("executeCommand", CombinedOutput(proc),
                    [data |-> r.data,
                     err |-> IF r.err # <<>>
                             THEN <<"executing command: ">> \o r.err
                             ELSE <<>>])
        /\ Spawned(proc)

\* the error of readFile is returned with the prefix of the stdin mode
ReadFileWrongPrefix ==
    /\ pc = "parsed"
    /\ ~showVersion
    /\ Mode(remainingArgs, filePath) = "file"
    /\ \E o \in FileOutcomes :
        LET r == readFile(o) IN
        Acquired("readFile", o,
                 [data |-> r.data,
                  err |-> IF r.err # <<>>
                          THEN <<"reading stdin: ">> \o r.err
                          ELSE <<>>])
    /\ UNCHANGED <<stdinConsumed, stderr, child>>

\* the error of readFile is dropped and the empty content is wrapped
ReadFileIgnoreError ==
    /\ pc = "parsed"
    /\ ~showVersion
    /\ Mode(remainingArgs, filePath) = "file"
    /\ \E o \in FileOutcomes :
        Acquired("readFile", o, [data |-> readFile(o).data, err |-> <<>>])
    /\ UNCHANGED <<stdinConsumed, stderr, child>>

\* a failed read of the file is tried again
ReadFileRetry ==
    /\ pc = "parsed"
    /\ ~showVersion
    /\ Mode(remainingArgs, filePath) = "file"
    /\ \E o \in FileOutcomes :
        LET r == readFile(o) IN
        IF r.err # <<>>
        THEN /\ answer' = o
             /\ UNCHANGED <<content, source, args, filePath, showVersion,
                            remainingArgs, err, returnedAt, pc, effects,
                            stdout, writeResult, wrapVars, concVars>>
        ELSE Acquired("readFile", o, r)
    /\ UNCHANGED <<stdinConsumed, stderr, child>>

\* run, lines 51-56: file mode
ReadFile ==
    /\ pc = "parsed"
    /\ ~showVersion
    /\ Mode(remainingArgs, filePath) = "file"
    /\ \E o \in FileOutcomes :
        LET r == readFile(o) IN
        Acquired("readFile", o,
                 [data |-> r.data,
                  err |-> IF r.err # <<>>
                          THEN <<"reading file: ">> \o r.err
                          ELSE <<>>])
    /\ UNCHANGED <<stdinConsumed, stderr, child>>

\* the head of the envelope is written before standard input is read
ReadStdinStreaming ==
    /\ pc = "parsed"
    /\ ~showVersion
    /\ Mode(remainingArgs, filePath) = "stream"
    /\ \E o \in StdinOutcomes :
        LET r == readFromReader(o) IN
        /\ effects' = effects \o <<"Fprintln", "readFromReader">>
        /\ stdout' = stdout \o StartMarker \o NL
        /\ answer' = o
        /\ stdinConsumed' = Len(o.data)
        /\ IF r.err # <<>>
           THEN /\ err' = <<"reading stdin: ">> \o r.err
                /\ content' = content
                /\ pc' = "done"
                /\ returnedAt' = "acquire"
           ELSE /\ err' = <<>>
                /\ content' = r.data
                /\ pc' = "acquired"
                /\ returnedAt' = "none"
    /\ UNCHANGED <<source, args, filePath, showVersion, remainingArgs,
                   stderr, writeResult, child, wrapVars, concVars>>

\* run, lines 57-63: stdin mode
ReadStdin ==
    /\ pc = "parsed"
    /\ ~showVersion
    /\ Mode(remainingArgs, filePath) = "stream"
    /\ \E o \in StdinOutcomes :
        LET r == readFromReader(o) IN
        /\ Acquired("readFromReader", o,
                    [data |-> r.data,
                     err |-> IF r.err # <<>>
                             THEN <<"reading stdin: ">> \o r.err
                             ELSE <<>>])
        /\ stdinConsumed' = Len(o.data)
    /\ UNCHANGED <<stderr, child>>

\* the wrapped text is written without the newline of Fprintln
WrapAndOutputNoNewline ==
    /\ pc = "acquired"
    /\ LET wrapped == WrapContent(content, source) IN
       \E w \in WriteOutcomes :
        /\ writeResult' = w
        /\ stdout' = stdout \o Written(wrapped, w)
    /\ effects' = effects \o <<"WrapContent", "Fprintln">>
    /\ err' = <<>>
    /\ pc' = "done"
    /\ returnedAt' = "output"
    /\ UNCHANGED <<content, source, args, filePath, showVersion,
                   remainingArgs, stderr, stdinConsumed, answer, child,
                   wrapVars, concVars>>

\* run, lines 65-68: the content is wrapped and written, and run returns nil
WrapAndOutput ==
    /\ pc = "acquired"
    /\ LET wrapped == WrapContent(content, source) IN
       \E w \in WriteOutcomes :
        /\ writeResult' = w
        /\ stdout' = stdout \o Written(wrapped \o NL, w)
    /\ effects' = effects \o <<"WrapContent", "Fprintln">>
    /\ err' = <<>>
    /\ pc' = "done"
    /\ returnedAt' = "output"
    /\ UNCHANGED <<content, source, args, filePath, showVersion,
                   remainingArgs, stderr, stdinConsumed, answer, child,
                   wrapVars, concVars>>

Next ==
    \/ Parse
    \/ PrintVersion
    \/ ExecuteCommand
    \/ ReadFile
    \/ ReadStdin
    \/ WrapAndOutput

Spec == Init /\ [][Next]_vars

\* the most arguments after the program name where termination is checked
MaxLiveArgs == 2

LiveInit == Init /\ Len(args) <= MaxLiveArgs

\* run is one goroutine of straight-line code: a step that can be taken is
\* taken, once the read or the subprocess it waits for has come to its end
SpecLive == LiveInit /\ [][Next]_vars /\ WF_vars(Next)

(***************************************************************************)
(* Properties of WrapContent, checked under SpecWrap.                      *)
(***************************************************************************)
Wrapped == stage \in {"wrapped", "rewrapped"}

NewlinesIn(s) == Count(s, NL)

\* the bytes of the envelope that precede the content
ContentOffset(s) ==
    Len(StartMarker) + 1 + Len(SourcePrefix) + Len(s) + 1 + Len(Separator) + 1

\* the content segment of an envelope w whose source label is s
ContentSegment(w, s) ==
    SubSeq(w, ContentOffset(s) + 1, Len(w) - Len(EndMarker) - 1)

\* C1: for every content and source, WrapContent(content, source) is exactly
\* start marker, newline, "Source: ", source, newline, "---", newline,
\* content, newline, end marker: nothing added, removed or reordered.
C1_ExactFormat ==
    Wrapped =>
        out = StartMarker \o NL \o SourcePrefix \o source \o NL
                \o Separator \o NL \o content \o NL \o EndMarker

C1_Witness ==
    /\ stage = "wrapped"
    /\ content = EndMarker \o NL
    /\ source = <<"%", "s">>
    /\ Len(out) > Len(Format)

\* C2: the output starts with the start marker followed by a newline and ends
\* with a newline followed by the end marker, with nothing after it; split on
\* newline, its first line is the start marker and its last the end marker.
C2_MarkersFirstAndLast ==
    Wrapped =>
        /\ HasPrefix(out, StartMarker \o NL)
        /\ HasSuffix(out, NL \o EndMarker)
        /\ Split(out)[1] = StartMarker
        /\ Split(out)[Len(Split(out))] = EndMarker

C2_Witness ==
    /\ stage = "wrapped"
    /\ source = EndMarker
    /\ content = NL \o StartMarker
    /\ Split(out)[Len(Split(out))] = EndMarker

\* C3: the output holds content verbatim as one contiguous run of bytes,
\* right after the wrapper's separator line ("---" and a newline) and right
\* before the final newline and end marker; it is not trimmed or escaped.
C3_ContentVerbatim ==
    Wrapped =>
        LET o == ContentOffset(source) IN
        /\ SubSeq(out, o + 1, o + Len(content)) = content
        /\ SubSeq(out, o - Len(Separator) - 1, o) = NL \o Separator \o NL
        /\ SubSeq(out, o + Len(content) + 1, Len(out)) = NL \o EndMarker

C3_Witness ==
    /\ stage = "wrapped"
    /\ content = Separator \o NL
    /\ ContentSegment(out, source) = Separator \o NL

\* C4: the output holds source verbatim right after "Source: " on the line
\* that follows the start marker line; an empty source gives the line
\* "Source: ".
C4_SourceVerbatim ==
    Wrapped =>
        LET o == Len(StartMarker) + 1 IN
        /\ SubSeq(out, 1, o) = StartMarker \o NL
        /\ SubSeq(out, o + 1, o + Len(SourcePrefix)) = SourcePrefix
        /\ SubSeq(out, o + Len(SourcePrefix) + 1,
                       o + Len(SourcePrefix) + Len(source)) = source
        /\ out[o + Len(SourcePrefix) + Len(source) + 1] = "\n"
        /\ (source = <<>> => Split(out)[2] = SourcePrefix)

C4_Witness ==
    /\ stage = "wrapped"
    /\ source = <<>>
    /\ content = <<"a">>
    /\ Split(out)[2] = SourcePrefix

\* C5 as claimed: each marker occurs in the output once more than it occurs
\* in content, whatever the source label.
C5_CountFromContentOnly ==
    Wrapped =>
        /\ Count(out, StartMarker) = 1 + Count(content, StartMarker)
        /\ Count(out, EndMarker) = 1 + Count(content, EndMarker)

\* C5 as amended: each marker occurs in the output once more than it occurs
\* in content and in the source label together.
C5_CountFromContentAndSource ==
    Wrapped =>
        /\ Count(out, StartMarker)
              = 1 + Count(content, StartMarker) + Count(source, StartMarker)
        /\ Count(out, EndMarker)
              = 1 + Count(content, EndMarker) + Count(source, EndMarker)

C5_Witness ==
    /\ stage = "wrapped"
    /\ source = StartMarker
    /\ content = StartMarker \o EndMarker
    /\ Count(out, StartMarker) = 3
    /\ Count(out, EndMarker) = 2

\* C6: the output is five segments joined by single newlines, in the order
\* start marker, source line, separator, content, end marker: 5 lines when
\* neither input holds a newline, an empty fourth line for an empty content,
\* and 5 + newlines(source) + newlines(content) lines in general, the
\* separator at line index 2 + newlines(source), counted from 0.
C6_FiveSegments ==
    Wrapped =>
        LET lines == Split(out)
            k == NewlinesIn(source)
            m == NewlinesIn(content)
        IN
        /\ Len(lines) = 5 + k + m
        /\ lines[1] = StartMarker
        /\ lines[3 + k] = Separator
        /\ lines[Len(lines)] = EndMarker
        /\ (k = 0 /\ m = 0 =>
                lines = << StartMarker, SourcePrefix \o source, Separator,
                           content, EndMarker >>)
        /\ (k = 0 /\ content = <<>> => Len(lines) = 5 /\ lines[4] = <<>>)

C6_Witness ==
    /\ stage = "wrapped"
    /\ source = NL
    /\ content = NL \o NL
    /\ Len(Split(out)) = 8
    /\ Split(out)[4] = Separator

\* C7: the output is as long as content and source together plus 83 bytes
\* (32 + 8 + 3 + 36 for the literals and 4 newlines); nothing is truncated.
C7_LengthOverhead ==
    Wrapped =>
        /\ Len(out) = Len(content) + Len(source) + 83
        /\ Len(StartMarker) = 32 /\ Len(SourcePrefix) = 8
        /\ Len(Separator) = 3 /\ Len(EndMarker) = 36

C7_Witness ==
    /\ stage = "wrapped"
    /\ content = EndMarker \o StartMarker
    /\ source = StartMarker
    /\ Len(out) = 183

\* C8: wrapping a wrapped text again changes it: the result differs from the
\* inner envelope, holds the inner envelope verbatim as its content segment,
\* and holds strictly more start markers and end markers.
C8_RewrapNests ==
    stage = "rewrapped" =>
        /\ out2 # out
        /\ ContentSegment(out2, source2) = out
        /\ HasPrefix(out2, StartMarker \o NL \o SourcePrefix \o source2
                              \o NL \o Separator \o NL)
        /\ HasSuffix(out2, NL \o EndMarker)
        /\ Count(out2, StartMarker) > Count(out, StartMarker)
        /\ Count(out2, EndMarker) > Count(out, EndMarker)

C8_Witness ==
    /\ stage = "rewrapped"
    /\ content = <<"a">>
    /\ source2 = <<>>
    /\ Count(out2, StartMarker) = 2
    /\ Count(out2, EndMarker) = 2

(***************************************************************************)
(* Properties of run, checked under Spec.                                  *)
(***************************************************************************)
\* the acquisitions made so far, in order
Acquisitions ==
    SelectSeq(effects,
              LAMBDA e : e \in {"executeCommand", "readFile", "readFromReader"})

\* run is past the choice of a mode: the flags were parsed, the version was
\* not asked for, and the selected acquisition has returned
ModeTaken ==
    pc \in {"acquired", "done"} /\ returnedAt \notin {"parse", "version"}

\* C9: run picks the acquisition once, by the precedence command > file >
\* stream: with arguments left after the flags the subprocess is executed
\* (also when a file path is given, and the file is then never read);
\* otherwise with a file path given (the file flag holds a path, that is a
\* non-empty string) the file is read; otherwise standard input is read.
C9_ModePrecedence ==
    ModeTaken =>
        /\ Len(remainingArgs) > 0 => Acquisitions = <<"executeCommand">>
        /\ Len(remainingArgs) = 0 /\ filePath # <<>>
              => Acquisitions = <<"readFile">>
        /\ Len(remainingArgs) = 0 /\ filePath = <<>>
              => Acquisitions = <<"readFromReader">>

C9_Witness ==
    /\ pc = "done"
    /\ args = <<ArgFileEqP, ArgCmd>>
    /\ filePath = ArgP
    /\ remainingArgs = <<ArgCmd>>
    /\ effects = <<"executeCommand", "WrapContent", "Fprintln">>

\* C10: an invocation that gets past the flags and is no version query makes
\* exactly one of the three acquisitions, and a failed acquisition is not
\* followed by another: run returns its error at once.
C10_ExactlyOneAcquisition ==
    /\ Len(Acquisitions) <= 1
    /\ ModeTaken => Len(Acquisitions) = 1
    /\ returnedAt = "acquire" =>
          /\ pc = "done"
          /\ err # <<>>
          /\ Len(effects) = 1
          /\ (effects # <<"readFromReader">> => stdinConsumed = 0)

C10_Witness ==
    /\ pc = "done"
    /\ returnedAt = "acquire"
    /\ args = <<ArgFileEqP, ArgCmd>>
    /\ effects = <<"executeCommand">>
    /\ stdinConsumed = 0
    /\ Head(err) = "executing command: "

\* whether the call log holds the call
Called(call) == \E i \in 1..Len(effects) : effects[i] = call

\* the envelope of section 6 of the specification, written out
Envelope(c, s) ==
    StartMarker \o NL \o SourcePrefix \o s \o NL \o Separator \o NL
        \o c \o NL \o EndMarker

\* C11: when the acquisition fails, in any mode (missing file, directory,
\* unreadable file, command not found, command exiting non-zero, read error
\* on standard input), run returns an error, WrapContent is never called and
\* no byte reaches standard output.
C11_FailedAcquisitionAborts ==
    /\ (Acquisitions # <<>> /\ answer.err # <<>>) =>
          /\ pc = "done"
          /\ returnedAt = "acquire"
          /\ err # <<>>
          /\ ~Called("WrapContent")
          /\ ~Called("Fprintln")
          /\ stdout = <<>>
          /\ writeResult = "none"
    /\ returnedAt = "acquire" => answer.err # <<>>

C11_Witness ==
    /\ pc = "done"
    /\ Acquisitions = <<"readFile">>
    /\ answer.err = <<"is a directory">>
    /\ err # <<>>
    /\ stdout = <<>>

\* C12: in command mode a subprocess that exits with a status other than 0
\* makes run fail with nothing on standard output, whatever the subprocess
\* wrote before it exited: the captured bytes are dropped and never wrapped.
C12_NonZeroExitDiscardsOutput ==
    (Acquisitions = <<"executeCommand">> /\ answer.err = <<"exit status">>) =>
        /\ pc = "done"
        /\ err # <<>>
        /\ content = <<>>
        /\ stdout = <<>>
        /\ ~Called("WrapContent")

C12_Witness ==
    /\ pc = "done"
    /\ Acquisitions = <<"executeCommand">>
    /\ answer = [data |-> <<"o", "e">>, err |-> <<"exit status">>]
    /\ stdout = <<>>
    /\ Head(err) = "executing command: "

\* C13: after a successful acquisition in any mode, what run hands to the
\* stdout writer in its one write is the envelope of the acquired bytes and
\* the source label followed by one newline, so that a writer that accepts
\* the write holds exactly start marker, newline, ..., end marker, newline.
C13_OutputIsEnvelopePlusNewline ==
    returnedAt = "output" =>
        LET text == Envelope(answer.data, source) \o NL IN
        /\ answer.err = <<>>
        /\ Len(effects) = 3
        /\ SubSeq(effects, 2, 3) = <<"WrapContent", "Fprintln">>
        /\ stdout = Written(text, writeResult)
        /\ writeResult = "ok" =>
              /\ stdout = text
              /\ HasPrefix(stdout, StartMarker \o NL)
              /\ HasSuffix(stdout, NL \o EndMarker \o NL)

C13_Witness ==
    /\ returnedAt = "output"
    /\ writeResult = "ok"
    /\ Acquisitions = <<"readFile">>
    /\ answer.data = <<"f", "\n">>
    /\ source = ArgL
    /\ stdout = Envelope(<<"f", "\n">>, ArgL) \o NL

\* the flags were parsed without an error
ParsedOK == pc # "start" /\ returnedAt # "parse"

\* an argument that names the source flag, with one or two '-'
IsSourceOption(a) ==
    \/ a \in { <<"-">> \o SourceName, <<"-", "-">> \o SourceName }
    \/ HasPrefix(a, <<"-">> \o SourceName \o <<"=">>)
    \/ HasPrefix(a, <<"-", "-">> \o SourceName \o <<"=">>)

\* some argument supplies the label v, in the syntax --source=v or --source v
SuppliesLabel(v) ==
    \E i \in 1..Len(args) :
        \/ args[i] \in { <<"-">> \o SourceName \o <<"=">> \o v,
                         <<"-", "-">> \o SourceName \o <<"=">> \o v }
        \/ /\ args[i] \in { <<"-">> \o SourceName, <<"-", "-">> \o SourceName }
           /\ i < Len(args)
           /\ args[i + 1] = v

\* the source flag was set by an argument
SourceSupplied == SourceName \in FlagParse(args).flags.set

\* C14 as claimed: the label is "Unknown" if and only if no source option was
\* supplied.
C14_UnknownIffNotSupplied ==
    ParsedOK => (source = Unknown <=> ~SourceSupplied)

\* C14 as amended: without a source option the label is "Unknown"; a supplied
\* label, in either syntax and also when empty, is the label, byte for byte,
\* and it is what WrapContent is given.
C14_DefaultOrVerbatim ==
    ParsedOK =>
        /\ ~SourceSupplied => source = Unknown
        /\ SourceSupplied => SuppliesLabel(source)
        /\ (\A i \in 1..Len(args) : ~IsSourceOption(args[i])) => ~SourceSupplied
        /\ (args # <<>> /\ IsSourceOption(args[1])) => SourceSupplied
        /\ args = <<ArgSourceEq>> => source = <<>>
        /\ args = <<ArgSourceEqL>> => source = ArgL
        /\ args = <<ArgSource, ArgL>> => source = ArgL
        /\ (returnedAt = "output" /\ writeResult = "ok") =>
              HasPrefix(stdout, StartMarker \o NL \o SourcePrefix \o source
                                    \o NL \o Separator \o NL)

C14_Witness ==
    /\ returnedAt = "output"
    /\ writeResult = "ok"
    /\ args = <<ArgSource, ArgP, ArgSourceEq>>
    /\ source = <<>>
    /\ HasPrefix(stdout, StartMarker \o NL \o SourcePrefix \o NL)

\* C15: with the version flag set, run writes the version and a newline and
\* nothing else to standard output and returns nil, without any acquisition
\* and without wrapping, also when a file path or trailing arguments are
\* given; no marker is written.
C15_VersionBypasses ==
    /\ (ParsedOK /\ showVersion) =>
          /\ Acquisitions = <<>>
          /\ ~Called("WrapContent")
          /\ stdinConsumed = 0
          /\ answer = NoAnswer
          /\ (pc = "done" => returnedAt = "version")
    /\ returnedAt = "version" =>
          /\ showVersion
          /\ err = <<>>
          /\ effects = <<"Fprintln">>
          /\ stdout = Written(Version \o NL, writeResult)
          /\ (writeResult = "ok" => stdout = Version \o NL)
          /\ ~Contains(stdout, StartMarker)
          /\ ~Contains(stdout, EndMarker)

C15_Witness ==
    /\ returnedAt = "version"
    /\ args = <<ArgVersion, ArgFileEqP, ArgCmd>>
    /\ filePath = ArgP
    /\ remainingArgs = <<ArgCmd>>
    /\ stdout = Version \o NL
    /\ effects = <<"Fprintln">>

\* C16: an argument error (an unknown flag, a flag without its value, -h) is
\* reported before any acquisition: run returns an error, executes nothing,
\* reads no file and no standard input, writes nothing to standard output,
\* and the usage text goes to standard error.
C16_ArgumentErrorFirst ==
    /\ (pc # "start" /\ FlagParse(args).err # <<>>) => returnedAt = "parse"
    /\ (pc # "start" /\ args # <<>>
          /\ args[1] \in {ArgHelp, ArgBogus}) => returnedAt = "parse"
    /\ (pc # "start" /\ args \in { <<ArgSource>>, <<ArgFile>> })
          => returnedAt = "parse"
    /\ returnedAt = "parse" =>
          /\ pc = "done"
          /\ err # <<>>
          /\ effects = <<>>
          /\ answer = NoAnswer
          /\ stdinConsumed = 0
          /\ stdout = <<>>
          /\ writeResult = "none"
          /\ stderr # <<>>
          /\ stderr[Len(stderr)] = "usage"

C16_Witness ==
    /\ pc = "done"
    /\ returnedAt = "parse"
    /\ args = <<ArgFileEqP, ArgBogus, ArgCmd>>
    /\ err = <<"flag provided but not defined">>
    /\ stderr = <<"flag provided but not defined", "usage">>
    /\ stdout = <<>>
    /\ effects = <<>>

\* C18: binary content (a null byte, a byte that is no valid text encoding)
\* read from standard input or from a file reaches the output unchanged: the
\* content segment has the same length and the same bytes in the same order.
C18_BinaryPassesThrough ==
    (Acquisitions # <<>>
        /\ Acquisitions[1] \in {"readFile", "readFromReader"}
        /\ answer.err = <<>>) =>
        /\ content = answer.data
        /\ Len(content) = Len(answer.data)
        /\ (returnedAt = "output" /\ writeResult = "ok") =>
              LET text == SubSeq(stdout, 1, Len(stdout) - 1) IN
              /\ Len(ContentSegment(text, source)) = Len(answer.data)
              /\ ContentSegment(text, source) = answer.data

C18_Witness ==
    /\ returnedAt = "output"
    /\ writeResult = "ok"
    /\ Acquisitions = <<"readFile">>
    /\ answer.data = <<"0x00", "0xff">>
    /\ ContentSegment(SubSeq(stdout, 1, Len(stdout) - 1), source)
          = <<"0x00", "0xff">>

\* C19: within one invocation the order is read, wrap, write: standard
\* output gets no byte before the acquisition has returned without an error,
\* and the wrapped text is handed over in one write, the last call run makes.
C19_ReadWrapWrite ==
    /\ pc \in {"start", "parsed", "acquired"} =>
          /\ stdout = <<>>
          /\ writeResult = "none"
          /\ ~Called("Fprintln")
    /\ Cardinality({ i \in 1..Len(effects) : effects[i] = "Fprintln" }) <= 1
    /\ stdout # <<>> => pc = "done" /\ returnedAt \in {"output", "version"}
    /\ returnedAt = "output" =>
          /\ answer.err = <<>>
          /\ Len(Acquisitions) = 1
          /\ effects = <<Acquisitions[1], "WrapContent", "Fprintln">>
          /\ stdout = Written(Envelope(content, source) \o NL, writeResult)

C19_Witness ==
    /\ returnedAt = "output"
    /\ writeResult = "ok"
    /\ effects = <<"readFromReader", "WrapContent", "Fprintln">>
    /\ answer.data = EndMarker \o NL
    /\ stdinConsumed = Len(EndMarker) + 1
    /\ stdout = Envelope(EndMarker \o NL, source) \o NL

\* C20: every error run returns shows its class: a command failure starts
\* with "executing command: ", a file failure with "reading file: ", a stdin
\* failure with "reading stdin: ", each followed by the underlying error; an
\* argument error is the flag set's error as it is; WrapContent adds none.
C20_ErrorClasses ==
    /\ returnedAt = "acquire" =>
          /\ Acquisitions = <<"executeCommand">> =>
                err = <<"executing command: ", "command failed: ">>
                          \o answer.err
          /\ Acquisitions = <<"readFile">> =>
                err = <<"reading file: ">> \o answer.err
          /\ Acquisitions = <<"readFromReader">> =>
                err = <<"reading stdin: ">> \o answer.err
    /\ returnedAt = "parse" =>
          /\ err = FlagParse(args).err
          /\ Len(err) = 1
          /\ Head(err) \notin {"executing command: ", "reading file: ",
                               "reading stdin: "}
    /\ returnedAt \in {"output", "version"} => err = <<>>
    /\ pc = "done" => (err # <<>> <=> returnedAt \in {"parse", "acquire"})
    /\ Called("WrapContent") => err = <<>>

C20_Witness ==
    /\ pc = "done"
    /\ returnedAt = "acquire"
    /\ Acquisitions = <<"readFile">>
    /\ err = <<"reading file: ", "permission denied">>

(***************************************************************************)
(* SpecConc: two invocations of run at once, as the goroutines of          *)
(* TestConcurrentRuns, each with its own arguments and its own streams,    *)
(* their steps interleaved in every order.  The only objects an invocation *)
(* reaches through a pointer are those of its flag set: *source, *filePath *)
(* and *showVersion are read where they are used, after the parse.         *)
(***************************************************************************)
Procs == {1, 2}

\* the most arguments of an invocation that runs beside another
MaxConcArgs == 2

ConcTokens == { ArgSourceEqL, ArgFileEqP, ArgVersion, ArgCmd }

RECURSIVE ConcArgLists(_)
ConcArgLists(n) ==
    IF n = 0 THEN { <<>> }
    ELSE LET shorter == ConcArgLists(n - 1) IN
         shorter \cup { Append(l, a) : l \in shorter, a \in ConcTokens }

\* one package-level flag set serves every invocation
FlagSetShared(p) == 0

\* flag.NewFlagSet(args[0], flag.ContinueOnError): a flag set of its own for
\* each invocation
FlagSetOf(p) == p

NewFlagSet == [flags |-> FlagDefaults, rest |-> <<>>]

\* what an acquisition returns to run, by mode, with the prefix run adds
Returned(mode) ==
    CASE mode = "command" ->
            { [data |-> executeCommand(proc).data,
               err |-> IF executeCommand(proc).err # <<>>
                       THEN <<"executing command: ">>
                                \o executeCommand(proc).err
                       ELSE <<>>] : proc \in Processes }
      [] mode = "file" ->
            { [data |-> readFile(o).data,
               err |-> IF readFile(o).err # <<>>
                       THEN <<"reading file: ">> \o readFile(o).err
                       ELSE <<>>] : o \in FileOutcomes }
      [] OTHER ->
            { [data |-> readFromReader(o).data,
               err |-> IF readFromReader(o).err # <<>>
                       THEN <<"reading stdin: ">> \o readFromReader(o).err
                       ELSE <<>>] : o \in StdinOutcomes }

ConcInit ==
    /\ inv \in [Procs -> { [pc |-> "start", args |-> a, mode |-> "none",
                            got |-> NoAnswer, content |-> <<>>,
                            err |-> <<>>, stdout |-> <<>>, stderr |-> <<>>]
                           : a \in ConcArgLists(MaxConcArgs) }]
    /\ flagSets = [id \in Procs \cup {0} |-> NewFlagSet]
    /\ content = <<>>
    /\ source = <<>>
    /\ stage = "idle"
    /\ out = <<>>
    /\ source2 = <<>>
    /\ out2 = <<>>
    /\ pc = "idle"
    /\ args = <<>>
    /\ filePath = <<>>
    /\ showVersion = FALSE
    /\ remainingArgs = <<>>
    /\ err = <<>>
    /\ returnedAt = "none"
    /\ stdout = <<>>
    /\ stderr = <<>>
    /\ writeResult = "none"
    /\ stdinConsumed = 0
    /\ answer = NoAnswer
    /\ effects = <<>>
    /\ child = NoChild

ConcFrame == UNCHANGED <<content, source, wrapVars, runVars>>

\* run of invocation p, lines 24-33
ConcParse(p) ==
    /\ inv[p].pc = "start"
    /\ LET r == FlagParse(inv[p].args) IN
        /\ flagSets' = [flagSets EXCEPT
                          ![FlagSetOf(p)] = [flags |-> r.flags, rest |-> r.rest]]
        /\ inv' = [inv EXCEPT
                     ![p].pc = IF r.err # <<>> THEN "done" ELSE "parsed",
                     ![p].err = r.err,
                     ![p].stderr = r.output]
    /\ ConcFrame

\* run of invocation p, lines 35-38
ConcPrintVersion(p) ==
    /\ inv[p].pc = "parsed"
    /\ flagSets[FlagSetOf(p)].flags.version
    /\ inv' = [inv EXCEPT ![p].pc = "done",
                          ![p].stdout = Version \o NL]
    /\ UNCHANGED flagSets
    /\ ConcFrame

\* run of invocation p, lines 44-63
ConcAcquire(p) ==
    /\ inv[p].pc = "parsed"
    /\ ~flagSets[FlagSetOf(p)].flags.version
    /\ LET fs == flagSets[FlagSetOf(p)]
           mode == Mode(fs.rest, fs.flags.file)
       IN
       \E r \in Returned(mode) :
          inv' = [inv EXCEPT
                    ![p].mode = mode,
                    ![p].got = r,
                    ![p].err = r.err,
                    ![p].content = IF r.err # <<>> THEN <<>> ELSE r.data,
                    ![p].pc = IF r.err # <<>> THEN "done" ELSE "acquired"]
    /\ UNCHANGED flagSets
    /\ ConcFrame

\* the envelope carries a token drawn afresh for each invocation
ConcWrapAndOutputNonce(p) ==
    /\ inv[p].pc = "acquired"
    /\ \E nonce \in { <<"0">>, <<"1">> } :
        inv' = [inv EXCEPT
                  ![p].pc = "done",
                  ![p].stdout =
                      WrapContent(inv[p].content,
                                  flagSets[FlagSetOf(p)].flags.source
                                      \o nonce) \o NL]
    /\ UNCHANGED flagSets
    /\ ConcFrame

\* run of invocation p, lines 65-68
ConcWrapAndOutput(p) ==
    /\ inv[p].pc = "acquired"
    /\ inv' = [inv EXCEPT
                 ![p].pc = "done",
                 ![p].stdout =
                     WrapContent(inv[p].content,
                                 flagSets[FlagSetOf(p)].flags.source) \o NL]
    /\ UNCHANGED flagSets
    /\ ConcFrame

ConcNext ==
    \E p \in Procs :
        \/ ConcParse(p)
        \/ ConcPrintVersion(p)
        \/ ConcAcquire(p)
        \/ ConcWrapAndOutput(p)

SpecConc == ConcInit /\ [][ConcNext]_vars

\* what run leaves behind when it runs alone on the arguments argv and its
\* acquisition, if it makes one, returns r: a function of these two only
RunAlone(argv, r) ==
    LET f == FlagParse(argv) IN
    IF f.err # <<>>
    THEN [mode |-> "none", err |-> f.err, stdout |-> <<>>,
          stderr |-> f.output]
    ELSE IF f.flags.version
    THEN [mode |-> "none", err |-> <<>>, stdout |-> Version \o NL,
          stderr |-> <<>>]
    ELSE IF r.err # <<>>
    THEN [mode |-> Mode(f.rest, f.flags.file), err |-> r.err,
          stdout |-> <<>>, stderr |-> <<>>]
    ELSE [mode |-> Mode(f.rest, f.flags.file), err |-> <<>>,
          stdout |-> Envelope(r.data, f.flags.source) \o NL,
          stderr |-> <<>>]

\* C17: invocations of run at once, each with its own arguments and streams,
\* do not affect each other: under every interleaving the flags an invocation
\* reads are those of its own arguments, and its mode, its error, its
\* standard output and its standard error are what it leaves when run alone.
C17_InvocationsIndependent ==
    \A p \in Procs :
        /\ inv[p].pc \in {"parsed", "acquired"} =>
              LET f == FlagParse(inv[p].args) IN
              flagSets[FlagSetOf(p)] = [flags |-> f.flags, rest |-> f.rest]
        /\ inv[p].pc = "done" =>
              LET alone == RunAlone(inv[p].args, inv[p].got) IN
              /\ inv[p].mode = alone.mode
              /\ inv[p].err = alone.err
              /\ inv[p].stdout = alone.stdout
              /\ inv[p].stderr = alone.stderr

\* both invocations are between their parse and their write, with different
\* labels and different modes
C17_Witness ==
    /\ inv[1].pc = "acquired"
    /\ inv[2].pc = "acquired"
    /\ inv[1].args = <<ArgSourceEqL>>
    /\ inv[2].args = <<ArgFileEqP, ArgCmd>>
    /\ inv[1].mode = "stream"
    /\ inv[2].mode = "command"
    /\ flagSets[1].flags.source = ArgL
    /\ flagSets[2].flags.source = Unknown

(***************************************************************************)
(* Further properties of run, checked under Spec.                          *)
(***************************************************************************)
\* C21: in command mode the acquired content is the combined byte stream of
\* the subprocess: the bytes of every write it made to its standard output
\* or to its standard error, each whole and in the order written, and
\* nothing else; and nothing the subprocess wrote reaches the standard error
\* of run itself, whether the subprocess succeeded or not.
C21_CombinedStreamCaptured ==
    Acquisitions = <<"executeCommand">> =>
        LET writes == child.proc.writes
            before(i) == Len(Combined(SubSeq(writes, 1, i - 1)))
        IN
        /\ child.fds[1] = child.fds[2]
        /\ stderr = <<>>
        /\ answer.err = <<>> =>
              /\ Len(content) = Len(Combined(writes))
              /\ \A i \in 1..Len(writes) :
                    SubSeq(content, before(i) + 1,
                           before(i) + Len(writes[i].data)) = writes[i].data

C21_Witness ==
    /\ pc = "done"
    /\ returnedAt = "output"
    /\ writeResult = "ok"
    /\ Acquisitions = <<"executeCommand">>
    /\ Len(child.proc.writes) = 3
    /\ child.proc.writes[2].fd = 2
    /\ content = <<"o", "e", "o", "\n">>
    /\ stderr = <<>>
    /\ stdout = Envelope(<<"o", "e", "o", "\n">>, source) \o NL

\* a file path was supplied on the command line, whatever its value
FileSupplied == FileName \in FlagParse(args).flags.set

\* C22: with a file path supplied and no arguments left after the flags,
\* run reads the file, for every value of the path, the empty string
\* included; standard input is read only when no file path was supplied.
C22_FileModeForEverySuppliedPath ==
    ModeTaken =>
        /\ (FileSupplied /\ Len(remainingArgs) = 0)
              => Acquisitions = <<"readFile">>
        /\ Acquisitions = <<"readFromReader">> => ~FileSupplied

Rank(at) ==
    CASE at = "start" -> 0
      [] at = "parsed" -> 1
      [] at = "acquired" -> 2
      [] OTHER -> 3

\* C24 as stated: run ends in one of two ways only, with nil returned and
\* the wrapped text written to standard output, or with an error returned.
C24_WrappedOrError ==
    pc = "done" =>
        \/ /\ err = <<>>
           /\ Called("WrapContent")
           /\ stdout = Envelope(content, source) \o NL
        \/ err # <<>>

\* C24, amended: every invocation of run comes to an end, given that the read or the
\* subprocess it waits for does; it ends in exactly one of two ways: it
\* returns nil, having handed its output (the wrapped text, or the version
\* for a version query) to the stdout writer in one write, or it returns an
\* error, having written nothing; every step takes run further, so that no
\* step is retried, none returns to an earlier one, none follows the return.
C24_Terminates ==
    /\ <>(pc = "done")
    /\ [](pc = "done" =>
            \/ /\ err = <<>>
               /\ returnedAt \in {"output", "version"}
               /\ effects[Len(effects)] = "Fprintln"
               /\ writeResult # "none"
               /\ returnedAt = "output" =>
                     stdout = Written(Envelope(content, source) \o NL,
                                      writeResult)
            \/ /\ err # <<>>
               /\ returnedAt \in {"parse", "acquire"}
               /\ ~Called("Fprintln")
               /\ stdout = <<>>)
    /\ [][ /\ Rank(pc') > Rank(pc)
           /\ Len(effects') >= Len(effects)
           /\ SubSeq(effects', 1, Len(effects)) = effects ]_vars

C24_Witness ==
    /\ pc = "done"
    /\ returnedAt = "acquire"
    /\ Acquisitions = <<"readFile">>
    /\ answer.err = <<"permission denied">>
    /\ Head(err) = "reading file: "
    /\ Len(effects) = 1

(***************************************************************************)
(* The end of the flags, checked under Spec.                               *)
(***************************************************************************)
\* an argument that cannot be a flag: shorter than two bytes, or without a
\* leading '-'
NonFlag(a) == Len(a) < 2 \/ a[1] # "-"

\* the arguments before the k-th are flags with their values, all of them
FlagsBefore(k) ==
    LET f == FlagParse(SubSeq(args, 1, k - 1)) IN
    f.err = <<>> /\ f.rest = <<>>

\* C25: the flags end at the first argument that is no flag, and at "--":
\* the arguments from there on (after "--": behind it) are the remaining
\* arguments, option-like ones such as --source=L, -source L or --file=p
\* included; they leave the source label and the file path as the flags
\* before them set them; and whenever arguments remain, with or without
\* "--", run executes them, all of them, as the command and its arguments.
C25_FlagsEndAtFirstNonFlag ==
    pc # "start" =>
        /\ \A k \in 1..Len(args) :
              (NonFlag(args[k]) /\ FlagsBefore(k)) =>
                  LET f == FlagParse(SubSeq(args, 1, k - 1)) IN
                  /\ returnedAt # "parse"
                  /\ remainingArgs = SubSeq(args, k, Len(args))
                  /\ source = f.flags.source
                  /\ filePath = f.flags.file
        /\ \A k \in 1..Len(args) :
              ( /\ args[k] = ArgDashDash
                /\ FlagsBefore(k)
                /\ (k = 1 \/ args[k - 1] # ArgDashDash) ) =>
                  LET f == FlagParse(SubSeq(args, 1, k - 1)) IN
                  /\ returnedAt # "parse"
                  /\ remainingArgs = SubSeq(args, k + 1, Len(args))
                  /\ source = f.flags.source
                  /\ filePath = f.flags.file
        /\ (ModeTaken /\ Len(remainingArgs) > 0) =>
              /\ Acquisitions = <<"executeCommand">>
              /\ child.argv = remainingArgs

C25_Witness ==
    /\ pc = "done"
    /\ returnedAt = "output"
    /\ args = <<ArgCmd, ArgSource, ArgL>>
    /\ source = Unknown
    /\ filePath = <<>>
    /\ Acquisitions = <<"executeCommand">>
    /\ child.argv = <<ArgCmd, ArgSource, ArgL>>

\* C26: in command mode and in file mode run never reads standard input and
\* does not hand it to the subprocess, whose descriptor 0 is the null
\* device: no byte of the stream is consumed, and what run returns and
\* writes is determined by the arguments and by what the file or the
\* subprocess answered, so that it is the same whatever bytes wait on
\* standard input.
C26_StdinUntouched ==
    (ModeTaken /\ Acquisitions # <<"readFromReader">>) =>
        /\ Mode(remainingArgs, filePath) \in {"command", "file"}
        /\ ~Called("readFromReader")
        /\ stdinConsumed = 0
        /\ Acquisitions = <<"executeCommand">> =>
              /\ child.fds[0] = "devnull"
              /\ answer.data = Combined(child.proc.writes)
        /\ Acquisitions = <<"readFile">> => child = NoChild
        /\ (err # <<>>) = (answer.err # <<>>)
        /\ pc = "done" =>
              stdout = IF answer.err # <<>> THEN <<>>
                       ELSE Written(Envelope(answer.data, source) \o NL,
                                    writeResult)

C26_Witness ==
    /\ pc = "done"
    /\ returnedAt = "output"
    /\ writeResult = "ok"
    /\ args = <<ArgSourceEqL, ArgDashDash, ArgCmd>>
    /\ Acquisitions = <<"executeCommand">>
    /\ child.proc.started
    /\ child.proc.writes = <<>>
    /\ child.fds[0] = "devnull"
    /\ stdinConsumed = 0
    /\ stdout = Envelope(<<>>, ArgL) \o NL

\* C27: when run returns nil and the invocation was no version query, the
\* stdout writer has taken the whole wrapped text and the newline after it:
\* a write that failed or fell short is never followed by a nil return.
C27_NilMeansWritten ==
    (pc = "done" /\ err = <<>> /\ returnedAt = "output") =>
        /\ writeResult = "ok"
        /\ stdout = Envelope(content, source) \o NL

(***************************************************************************)
(* Further properties of WrapContent, checked under SpecWrap.              *)
(***************************************************************************)
Percent == <<"%">>

\* C28: a content or a source label that holds format directives ('%'
\* before s or another byte, "%%", a '%' at the very end) is inserted as it
\* is: the result is the envelope of section 6 around these very bytes, it
\* holds as many '%' as the content and the source together, and it holds
\* none of the texts fmt writes for a verb it cannot serve ("%!").
C28_DirectivesLiteral ==
    (stage # "input"
        /\ (Contains(content, Percent) \/ Contains(source, Percent))) =>
        /\ out = Envelope(content, source)
        /\ Count(out, Percent) = Count(content, Percent) + Count(source, Percent)
        /\ ~Contains(out, <<"%", "!">>)
        /\ ~Contains(out, MissingText)
        /\ ContentSegment(out, source) = content

C28_Witness ==
    /\ stage = "wrapped"
    /\ content = <<"%", "s", "%">>
    /\ source = <<"%", "s">>
    /\ out = Envelope(<<"%", "s", "%">>, <<"%", "s">>)

\* what is left of w behind its first n bytes
Drop(w, n) == SubSeq(w, n + 1, Len(w))

\* the reading of an envelope w back: the start-marker line is stripped, the
\* source label is what stands behind "Source: " up to the next newline, the
\* separator line is skipped, and the content is the rest without the final
\* newline and end marker; Malformed when a line is not where it should be
Malformed == [content |-> <<"?">>, source |-> <<"?">>, ok |-> FALSE]

Unwrap(w) ==
    IF ~HasPrefix(w, StartMarker \o NL \o SourcePrefix) THEN Malformed
    ELSE
    LET afterLabelPrefix == Drop(w, Len(StartMarker) + 1 + Len(SourcePrefix))
        nl == IndexFrom(afterLabelPrefix, "\n", 1)
        label == SubSeq(afterLabelPrefix, 1, nl - 1)
        afterLabel == Drop(afterLabelPrefix, nl)
    IN
    IF ~HasPrefix(afterLabel, Separator \o NL) THEN Malformed
    ELSE
    LET body == Drop(afterLabel, Len(Separator) + 1) IN
    IF ~HasSuffix(body, NL \o EndMarker) THEN Malformed
    ELSE [content |-> SubSeq(body, 1, Len(body) - Len(EndMarker) - 1),
          source |-> label,
          ok |-> TRUE]

\* C29: for a source label without a newline and every content, reading the
\* envelope back gives the content and the source it was made of; hence two
\* different pairs never have the same envelope, and with the source fixed
\* two different contents never have.  The same holds of the outer envelope
\* of a second wrapping, whose content is the inner envelope.
C29_RoundTrip ==
    /\ (stage # "input" /\ ~Contains(source, NL)) =>
          Unwrap(out) = [content |-> content, source |-> source, ok |-> TRUE]
    /\ (stage = "rewrapped" /\ ~Contains(source2, NL)) =>
          Unwrap(out2) = [content |-> out, source |-> source2, ok |-> TRUE]

C29_Witness ==
    /\ stage = "rewrapped"
    /\ content = NL \o EndMarker
    /\ source = Separator
    /\ source2 = EndMarker
    /\ Unwrap(out2).content = out
    /\ Unwrap(out).content = NL \o EndMarker
    /\ Unwrap(out).source = Separator

=============================================================================
